---- MODULE Spec2Model ----
(***************************************************************************)
(* Call admission and session concurrency subsystem of the AI phone        *)
(* receptionist backend (backend/app/modules/voice).                       *)
(*                                                                         *)
(*   - concurrent_manager.py : per-shop asyncio.Semaphore call slots       *)
(*   - session_manager.py    : SessionManager (active sessions, global cap)*)
(*   - call_queue.py         : CallQueue (per-shop wait queues)            *)
(*   - telephony.py / realtime_session.py / router.py : session lifecycle  *)
(*                                                                         *)
(* Each component has its own specification (SpecLimiter, SpecSessions,    *)
(* SpecQueue, SpecTwilio); the variables of the other components stay at   *)
(* their initial values.                                                   *)
(***************************************************************************)
EXTENDS Integers, Sequences, FiniteSets, TLC

\* ------------------------------------------------------------------------
\* Bounds of the model
\* ------------------------------------------------------------------------
MaxSemValue == 4
MaxCallCount == 3
MaxTime == 3
MaxEnqueues == 3
MaxFill == 6
MaxStops == 1
MaxToolCalls == 1
MaxErrors == 1
MaxAudioBytes == 3
MaxAppointments == 2
MaxGlobalCount == 3

\* ------------------------------------------------------------------------
\* Generic helpers
\* ------------------------------------------------------------------------
\* Python's None where an int is expected (limit: int | None).
None == -1

\* dict.get(k, default)
DictGet(d, k, default) == IF k \in DOMAIN d THEN d[k] ELSE default

\* d[k] = v on a dict
DictSet(d, k, v) == (k :> v) @@ d

\* del d[k]
DictDel(d, k) == [x \in (DOMAIN d) \ {k} |-> d[x]]

Max(a, b) == IF a >= b THEN a ELSE b

VARIABLES
    \* concurrent_manager.py module globals
    semaphores,     \* _semaphores: shop_id -> Semaphore._value
    call_counts,    \* _call_counts: shop_id -> int
    \* observation of the limiter's callers
    held,           \* shop_id -> slots granted (True returned) and not yet released
    limitsUsed,     \* shop_id -> set of limit arguments passed to acquire_call_slot
    limLast,        \* the last limiter call, its pre-state and its return value
    \* session_manager.py: SessionManager fields
    active_sessions_by_shop,   \* _active_sessions_by_shop: shop_id -> set of session ids
    global_active_count,       \* _global_active_count
    \* the callers of SessionManager: one admission per inbound call
    admission,      \* call -> [pc, shop]: where the call's admission stands
    smLast,         \* the last can_accept_call, its pre-state and its result
    \* call_queue.py: CallQueue fields
    queues,         \* _queues: shop_id -> the asyncio.Queue's items, oldest first
    queue_lock,     \* _lock: "free", or "held" by a dequeue that never finishes
    now,            \* time.time()
    \* observation of the queue's callers
    enqueued,       \* number of calls accepted by enqueue so far
    dequeued,       \* shop_id -> enqueue order number of the call last returned by dequeue
    qRet,           \* the return value of the last queue call
    \* telephony.py: one Twilio media stream and its TwilioRealtimeSession
    ws,             \* twilio_media_stream handler: "open" (in its loop) or "closed"
    session,        \* whether the handler has created its session (session is not None)
    has_shop,       \* whether the session has a shop_config with an id (shop_id)
    state,          \* RealtimeSession._state
    event_task,     \* RealtimeSession._event_task: "none", "running" or "done"
    is_connected,   \* RealtimeClient.is_connected
    should_transfer,\* TwilioRealtimeSession._should_transfer
    tool_calls,     \* SessionMetrics.tool_calls: the success flag of each recorded result
    errors,         \* number of entries of SessionMetrics.errors
    \* observation of the session's collaborators
    call_logs,      \* outcomes of the CallLog records inserted, in order
    usage_increments,  \* number of increment_usage(shop_id) calls
    stop_calls,     \* number of stop() calls made on the session
    \* router.py voice_stream and the base RealtimeSession
    endpoint,       \* which handler owns the session: "none", "voice" or "twilio"
    active_sessions,\* realtime_session._active_sessions: session id -> session
    start_pc,       \* the handler: "none" (in its loop), "connect" (awaiting inside
                    \* start()), "failed" (voice_stream on its way to its finally block)
    client_ws,      \* RealtimeClient._ws is not None
    twLast,         \* the last operation on the session and what it did
    total_audio_in_bytes,  \* SessionMetrics.total_audio_in_bytes
    orphaned_event_task,   \* whether an event task that a later start() replaced in
                           \* _event_task without cancelling it is still running
    \* observation of the registry's callers
    registered_ids, \* ids registered and not unregistered or cleaned up since
    regLast,        \* the last registry call, the registry before it, its result
    \* booking_state.py: the BookingState of one session, and tools.py
    proposed_date,  \* BookingState.proposed_date: NoString (None) or a string
    proposed_time,  \* BookingState.proposed_time
    confirmed,      \* BookingState.confirmed
    appointments,   \* number of appointments the calendar adapter created
    bkLast          \* the last booking call, its arguments and its result

limVars == <<semaphores, call_counts, held, limitsUsed, limLast>>
smVars == <<active_sessions_by_shop, global_active_count, admission, smLast>>
qVars == <<queues, queue_lock, now, enqueued, dequeued, qRet>>
twVars == <<ws, session, has_shop, state, event_task, is_connected, should_transfer,
            tool_calls, errors, call_logs, usage_increments, stop_calls, endpoint,
            active_sessions, start_pc, client_ws, twLast, total_audio_in_bytes,
            orphaned_event_task, registered_ids, regLast>>
\* the session and handler variables, without the registry
sessionVars == <<ws, session, has_shop, state, event_task, is_connected, should_transfer,
                 tool_calls, errors, call_logs, usage_increments, stop_calls, endpoint,
                 start_pc, client_ws, twLast, total_audio_in_bytes,
                 orphaned_event_task>>
bkVars == <<proposed_date, proposed_time, confirmed, appointments, bkLast>>
vars == <<limVars, smVars, qVars, twVars, bkVars>>

\* ------------------------------------------------------------------------
\* concurrent_manager.py
\* ------------------------------------------------------------------------
LimShops == {"s1", "s2"}
Limits == {None, 1, 2}
FiniteLimits == Limits \ {None}

NoCall == [op |-> "none", shop |-> "s1", limit |-> None, pre_count |-> 0,
           pre_held |-> 0, had_sem |-> FALSE, ret |-> FALSE]

LimInit ==
    /\ semaphores = <<>>
    /\ call_counts = <<>>
    /\ held = [s \in LimShops |-> 0]
    /\ limitsUsed = [s \in LimShops |-> {}]
    /\ limLast = NoCall

\* A semaphore try-acquire that takes a permit when one is free: what
\* asyncio.wait_for(semaphore.acquire(), timeout=0.0) would be if the wrapped
\* acquire ran before the timeout fired.
WaitForAcquireRuns(value) ==
    IF value > 0 THEN [acquired |-> TRUE, value |-> value - 1]
    ELSE [acquired |-> FALSE, value |-> value]

\* await asyncio.wait_for(semaphore.acquire(), timeout=0.0)
\* asyncio.wait_for with timeout <= 0 wraps the coroutine in a new task and,
\* as that task is not done yet (it has not run a single step), cancels it and
\* raises TimeoutError: semaphore.acquire() never executes, whatever the
\* semaphore's value.
WaitForAcquire(value) == [acquired |-> FALSE, value |-> value]

\* max(0, _call_counts.get(shop_id, 1) - 1) without the clamp
ReleasedCountUnclamped(counts, shop) == DictGet(counts, shop, 1) - 1

\* max(0, _call_counts.get(shop_id, 1) - 1)
ReleasedCount(counts, shop) == Max(0, DictGet(counts, shop, 1) - 1)

\* A get_semaphore that builds a new semaphore from the limit of every call
get_semaphore_recreates(sems, counts, shop, limit) ==
    [sems |-> DictSet(sems, shop, limit), counts |-> DictSet(counts, shop, 0)]

\* get_semaphore(shop_id, limit): creates the semaphore (and resets the
\* count to 0) on first use, returns the dicts after the call.
get_semaphore(sems, counts, shop, limit) ==
    IF shop \notin DOMAIN sems
    THEN [sems |-> DictSet(sems, shop, limit), counts |-> DictSet(counts, shop, 0)]
    ELSE [sems |-> sems, counts |-> counts]

get_concurrent_count(shop) == DictGet(call_counts, shop, 0)

get_available_slots(shop, limit) ==
    IF limit = None THEN None ELSE Max(0, limit - DictGet(call_counts, shop, 0))

\* An acquire_call_slot without its branch for unlimited tenants
unlimited_never(limit) == FALSE

\* acquire_call_slot: `if limit is None:  # Unlimited`
unlimited(limit) == limit = None

\* acquire_call_slot(shop_id, limit)
acquire_call_slot(shop, limit) ==
    /\ limitsUsed' = [limitsUsed EXCEPT ![shop] = @ \cup {limit}]
    /\ IF unlimited(limit)
       THEN /\ DictGet(call_counts, shop, 0) < MaxCallCount
            /\ call_counts' = DictSet(call_counts, shop, DictGet(call_counts, shop, 0) + 1)
            /\ semaphores' = semaphores
            /\ held' = [held EXCEPT ![shop] = @ + 1]
            /\ limLast' = [op |-> "acquire", shop |-> shop, limit |-> limit,
                           pre_count |-> get_concurrent_count(shop),
                           pre_held |-> held[shop],
                           had_sem |-> shop \in DOMAIN semaphores, ret |-> TRUE]
       ELSE LET g == get_semaphore(semaphores, call_counts, shop, limit)
                r == WaitForAcquire(g.sems[shop])
            IN  /\ r.acquired => DictGet(g.counts, shop, 0) < MaxCallCount
                /\ semaphores' = DictSet(g.sems, shop, r.value)
                /\ call_counts' = IF r.acquired
                                  THEN DictSet(g.counts, shop, DictGet(g.counts, shop, 0) + 1)
                                  ELSE g.counts
                /\ held' = [held EXCEPT ![shop] = IF r.acquired THEN @ + 1 ELSE @]
                /\ limLast' = [op |-> "acquire", shop |-> shop, limit |-> limit,
                               pre_count |-> get_concurrent_count(shop),
                               pre_held |-> held[shop],
                               had_sem |-> shop \in DOMAIN semaphores,
                               ret |-> r.acquired]

\* release_call_slot(shop_id)
release_call_slot(shop) ==
    /\ limLast' = [op |-> "release", shop |-> shop, limit |-> None,
                   pre_count |-> get_concurrent_count(shop),
                   pre_held |-> held[shop],
                   had_sem |-> shop \in DOMAIN semaphores, ret |-> FALSE]
    /\ held' = [held EXCEPT ![shop] = Max(0, @ - 1)]
    /\ IF shop \in DOMAIN semaphores
       THEN /\ semaphores[shop] < MaxSemValue
            /\ semaphores' = DictSet(semaphores, shop, semaphores[shop] + 1)
            /\ call_counts' = DictSet(call_counts, shop, ReleasedCount(call_counts, shop))
       ELSE UNCHANGED <<semaphores, call_counts>>
    /\ UNCHANGED limitsUsed

Acquire == \E s \in LimShops, l \in Limits : acquire_call_slot(s, l)
Release == \E s \in LimShops : release_call_slot(s)

LimNext == Acquire \/ Release

\* C1: for a tenant only ever acquired with the finite limit N, after any
\* interleaving of acquire_call_slot and release_call_slot (releases without a
\* matching acquire included), the number of slots acquired and not yet
\* released, and the tenant's active count, never exceed N.
C1_SlotsNeverExceedLimit ==
    \A s \in LimShops, n \in FiniteLimits :
        limitsUsed[s] = {n} => held[s] <= n /\ get_concurrent_count(s) <= n

\* C1 witness: a finite-limit tenant was released without a matching acquire
\* (nothing held, semaphore already created by an earlier acquire).
C1_Witness ==
    /\ limLast.op = "release"
    /\ limLast.had_sem
    /\ limLast.pre_held = 0
    /\ \E n \in FiniteLimits :
           limitsUsed[limLast.shop] = {n} /\ semaphores[limLast.shop] > n

\* C2: the tenant's active count (get_concurrent_count) is never negative,
\* and a release at count zero leaves it at zero.
C2_CountNeverNegative ==
    /\ \A s \in LimShops : get_concurrent_count(s) >= 0
    /\ (limLast.op = "release" /\ limLast.pre_count = 0)
           => get_concurrent_count(limLast.shop) = 0

\* C2 witness: release_call_slot ran its body (a semaphore existed) on a
\* tenant whose count was zero.
C2_Witness ==
    /\ limLast.op = "release"
    /\ limLast.had_sem
    /\ limLast.pre_count = 0
    /\ limLast.shop \in DOMAIN call_counts

\* C3: acquire_call_slot(tenant, N) with finite N returns True and raises the
\* active count by one whenever fewer than N slots are held, and returns False
\* leaving the count unchanged when N slots are held.
C3_AcquireGrantsBelowLimit ==
    (/\ limLast.op = "acquire"
     /\ limLast.limit # None
     /\ limitsUsed[limLast.shop] = {limLast.limit})
        => IF limLast.pre_held < limLast.limit
           THEN limLast.ret /\ get_concurrent_count(limLast.shop) = limLast.pre_count + 1
           ELSE ~limLast.ret /\ get_concurrent_count(limLast.shop) = limLast.pre_count

\* C34: for a finite-limit tenant whose releases all follow a matching
\* successful acquire, the active count plus the semaphore's free permits
\* equals the limit the semaphore was created with, and acquire_call_slot
\* returns False exactly when get_available_slots(tenant, limit) was zero.
C34_AvailableZeroIffAcquireFails ==
    LET s == limLast.shop
        n == limLast.limit
        pre_sem == DictGet(semaphores, s, 0) + (IF limLast.ret THEN 1 ELSE 0)
    IN  (/\ limLast.op = "acquire"
         /\ n # None
         /\ limitsUsed[s] = {n}
         /\ limLast.had_sem => limLast.pre_count + pre_sem = n)
            => /\ get_concurrent_count(s) + semaphores[s] = n
               /\ ~limLast.ret <=> (Max(0, n - limLast.pre_count) = 0)

C38_CapacityFixedByFirstLimit ==
    [][\A s \in LimShops :
          (/\ limLast'.op = "acquire" /\ limLast'.shop = s
           /\ limLast'.limit # None
           /\ s \in DOMAIN semaphores)
              => semaphores'[s] = semaphores[s] - (IF limLast'.ret THEN 1 ELSE 0)]_vars

\* acquire_call_slot was called with limit 2 on a tenant whose semaphore was
\* created with limit 1 and still has 1 permit
C38_Witness ==
    /\ limLast.op = "acquire" /\ limLast.limit = 2 /\ limLast.had_sem
    /\ limitsUsed[limLast.shop] = {1, 2}
    /\ semaphores[limLast.shop] = 1

\* ------------------------------------------------------------------------
\* session_manager.py
\* ------------------------------------------------------------------------
\* _settings.max_global_concurrent_calls (config.py default 100), scaled down
max_global_concurrent_calls == 2

Calls == {"c1", "c2", "c3", "c4"}
SmShops == {"s1", "s2", "s3", "s4", "s5", "s6"}

\* The shop documents and subscriptions the manager reads (data store):
\* s1, s2 are FREE-plan shops without override, s3 is an ENTERPRISE shop
\* without override, s4 has no shop configuration, s5 is a FREE-plan shop
\* with override 0 and s6 an ENTERPRISE shop with override 1.
ShopHasConfig == [s \in SmShops |-> s # "s4"]
\* settings.max_concurrent_calls
ShopOverride ==
    [s \in SmShops |-> CASE s = "s5" -> 0 [] s = "s6" -> 1 [] OTHER -> None]
ShopPlanTier ==
    [s \in SmShops |-> IF s \in {"s3", "s6"} THEN "ENTERPRISE" ELSE "FREE"]

\* billing/constants.py CONCURRENT_CALL_LIMITS
CONCURRENT_CALL_LIMITS ==
    [t \in {"FREE", "STARTER", "PROFESSIONAL", "ENTERPRISE"} |->
        CASE t = "FREE" -> 2
          [] t = "STARTER" -> 5
          [] t = "PROFESSIONAL" -> 10
          [] OTHER -> None]

\* The plan-based limit alone, whatever the shop's settings say.
get_shop_limit_plan_only(shop) ==
    DictGet(CONCURRENT_CALL_LIMITS, ShopPlanTier[shop], 1)

\* SessionManager._get_shop_limit(shop_id, shop_config)
get_shop_limit(shop) ==
    IF ShopHasConfig[shop] /\ ShopOverride[shop] # None
    THEN ShopOverride[shop]
    ELSE DictGet(CONCURRENT_CALL_LIMITS, ShopPlanTier[shop], 1)

ActiveCount(shop) == Cardinality(DictGet(active_sessions_by_shop, shop, {}))

RegisteredTotal ==
    Cardinality({c \in Calls : \E s \in DOMAIN active_sessions_by_shop :
                     c \in active_sessions_by_shop[s]})

SmInit ==
    /\ active_sessions_by_shop = <<>>
    /\ global_active_count = 0
    /\ admission = [c \in Calls |-> [pc |-> "idle", shop |-> "s1"]]
    /\ smLast = [shop |-> "s1", pre_global |-> 0, pre_active |-> 0, result |-> "none"]

\* SessionManager.can_accept_call: the result of the checks made under the
\* lock. When no shop configuration exists for the id, get_shop_config_by_id
\* raises NotFoundError (it never returns None), which leaves can_accept_call.
\* The shop-limit comparison `active_count >= limit` raises TypeError
\* when the limit is None (int >= NoneType).
can_accept_call(shop) ==
    IF global_active_count >= max_global_concurrent_calls THEN "reject_global"
    ELSE IF ~ShopHasConfig[shop] THEN "NotFoundError"
    ELSE IF get_shop_limit(shop) = None THEN "TypeError"
    ELSE IF ActiveCount(shop) >= get_shop_limit(shop) THEN "reject_shop"
    ELSE "accept"

\* An inbound call asks for admission; on acceptance its caller goes on to
\* register the session (a separate, later call on the manager).
CanAcceptCall(c, shop) ==
    /\ admission[c].pc = "idle"
    /\ LET r == can_accept_call(shop)
       IN  /\ smLast' = [shop |-> shop, pre_global |-> global_active_count,
                         pre_active |-> ActiveCount(shop), result |-> r]
           /\ admission' = [admission EXCEPT ![c] =
                  IF r = "accept"
                  THEN [pc |-> "accepted", shop |-> shop]
                  ELSE [pc |-> "idle", shop |-> "s1"]]
    /\ UNCHANGED <<active_sessions_by_shop, global_active_count>>

\* SessionManager.register_session(shop_id, session_id): the part under the lock
register_session(shop, sid) ==
    /\ active_sessions_by_shop' =
           DictSet(active_sessions_by_shop, shop,
                   DictGet(active_sessions_by_shop, shop, {}) \cup {sid})
    /\ global_active_count' = global_active_count + 1

\* An unregister_session that tests only whether the shop has sessions
is_registered_shop_only(by_shop, shop, sid) == shop \in DOMAIN by_shop

\* unregister_session: `if shop_id in ...: if session_id in ...[shop_id]:`
is_registered(by_shop, shop, sid) == shop \in DOMAIN by_shop /\ sid \in by_shop[shop]

\* SessionManager.unregister_session(shop_id, session_id)
unregister_session(shop, sid) ==
    IF is_registered(active_sessions_by_shop, shop, sid)
    THEN /\ active_sessions_by_shop' =
                IF active_sessions_by_shop[shop] = {sid}
                THEN DictDel(active_sessions_by_shop, shop)
                ELSE DictSet(active_sessions_by_shop, shop,
                             active_sessions_by_shop[shop] \ {sid})
         /\ global_active_count' = Max(0, global_active_count - 1)
    ELSE UNCHANGED <<active_sessions_by_shop, global_active_count>>

RegisterSession(c) ==
    /\ admission[c].pc = "accepted"
    /\ register_session(admission[c].shop, c)
    /\ admission' = [admission EXCEPT ![c].pc = "registered"]
    /\ UNCHANGED smLast

UnregisterSession(c) ==
    /\ admission[c].pc = "registered"
    /\ unregister_session(admission[c].shop, c)
    /\ admission' = [admission EXCEPT ![c] = [pc |-> "idle", shop |-> "s1"]]
    /\ UNCHANGED smLast

SmCanAccept == \E c \in Calls, s \in SmShops : CanAcceptCall(c, s)
SmRegister == \E c \in Calls : RegisterSession(c)
SmUnregister == \E c \in Calls : UnregisterSession(c)

SmNext == SmCanAccept \/ SmRegister \/ SmUnregister

\* register_session and unregister_session called with any shop and any
\* session id, whatever was registered before
CallShops == {"s1", "s2"}
SessionIds == {"c1", "c2", "c3"}

RegisterCall(shop, sid) ==
    /\ global_active_count < MaxGlobalCount
    /\ register_session(shop, sid)
    /\ smLast' = [shop |-> shop, pre_global |-> global_active_count,
                  pre_active |-> ActiveCount(shop),
                  result |-> IF is_registered(active_sessions_by_shop, shop, sid)
                             THEN "registered_again" ELSE "registered"]
    /\ UNCHANGED admission

UnregisterCall(shop, sid) ==
    /\ unregister_session(shop, sid)
    /\ smLast' = [shop |-> shop, pre_global |-> global_active_count,
                  pre_active |-> ActiveCount(shop),
                  result |-> IF is_registered(active_sessions_by_shop, shop, sid)
                             THEN "unregistered"
                             ELSE IF \E o \in DOMAIN active_sessions_by_shop :
                                        sid \in active_sessions_by_shop[o]
                             THEN "unregister_other_shop"
                             ELSE "unregister_unknown"]
    /\ UNCHANGED admission

SmRegisterCall == \E shop \in CallShops, sid \in SessionIds : RegisterCall(shop, sid)
SmUnregisterCall == \E shop \in CallShops, sid \in SessionIds : UnregisterCall(shop, sid)

SmCallsNext == SmRegisterCall \/ SmUnregisterCall

\* total number of session ids held across all shops' session sets
RECURSIVE SetSizes(_, _)
SetSizes(by_shop, shops) ==
    IF shops = {} THEN 0
    ELSE LET shop == CHOOSE x \in shops : TRUE
         IN  Cardinality(by_shop[shop]) + SetSizes(by_shop, shops \ {shop})
HeldSessionIds == SetSizes(active_sessions_by_shop, DOMAIN active_sessions_by_shop)

\* C35: after any sequence of register_session and unregister_session calls
\* (registering the same session id twice and unregistering an unknown id
\* included) the global active count equals the total number of session ids
\* held across all shops' session sets.
C35_GlobalCountEqualsHeldIds ==
    global_active_count = HeldSessionIds

\* C39: can_accept_call for a tenant for which no shop configuration is found
\* accepts the call whenever the global active count is below the global cap,
\* however many sessions the tenant has; the global cap is the only check.
C39_NoConfigOnlyGlobalCap ==
    (smLast.result \in {"accept", "reject_global", "reject_shop", "TypeError",
                        "NotFoundError"}
        /\ ~ShopHasConfig[smLast.shop])
        => smLast.result = IF smLast.pre_global < max_global_concurrent_calls
                           THEN "accept" ELSE "reject_global"

\* C40: unregister_session(shop, id) for an id that is not registered under
\* that shop (an unknown id, or an id registered under another shop) leaves
\* every shop's session set and the global active count unchanged.
C40_UnregisterUnknownChangesNothing ==
    [][\A shop \in CallShops, sid \in SessionIds :
          (UnregisterCall(shop, sid)
             /\ ~(shop \in DOMAIN active_sessions_by_shop
                    /\ sid \in active_sessions_by_shop[shop]))
              => /\ active_sessions_by_shop' = active_sessions_by_shop
                 /\ global_active_count' = global_active_count]_vars

\* unregister_session ran for an id registered under another shop only, with
\* two sessions registered
C40_Witness ==
    /\ smLast.result = "unregister_other_shop"
    /\ global_active_count = 2
    /\ HeldSessionIds = 2

\* C4: with the global cap G smaller than the sum of the tenant limits, under
\* any interleaving of admissions (can_accept_call, then register_session) and
\* unregistrations, the number of simultaneously registered sessions never
\* exceeds G.
C4_GlobalCapDominance ==
    /\ RegisteredTotal <= max_global_concurrent_calls
    /\ global_active_count <= max_global_concurrent_calls

\* C5: a tenant whose resolved limit is unlimited (ENTERPRISE, no override) is
\* accepted by can_accept_call whenever the global active count is below the
\* cap, however many sessions it has, and is refused once the global count
\* reaches the cap.
C5_UnlimitedTenantOnlyGlobalCap ==
    (smLast.result # "none" /\ ShopHasConfig[smLast.shop]
        /\ get_shop_limit(smLast.shop) = None)
        => IF smLast.pre_global < max_global_concurrent_calls
           THEN smLast.result = "accept"
           ELSE smLast.result = "reject_global"

\* C25: when a tenant has an explicit concurrency override, the limit used for
\* admission is that override for every plan tier (an override of 0 and an
\* override on an ENTERPRISE tenant included); the plan-tier default is used
\* only when no override is set.
C25_OverrideIsTheLimit ==
    (smLast.result # "none" /\ ShopHasConfig[smLast.shop]
          /\ smLast.pre_global < max_global_concurrent_calls) =>
          IF ShopOverride[smLast.shop] # None
          THEN smLast.result =
                   IF smLast.pre_active >= ShopOverride[smLast.shop]
                   THEN "reject_shop" ELSE "accept"
          ELSE LET d == DictGet(CONCURRENT_CALL_LIMITS, ShopPlanTier[smLast.shop], 1)
               IN  smLast.result =
                       IF d = None THEN "TypeError"
                       ELSE IF smLast.pre_active >= d THEN "reject_shop"
                       ELSE "accept"

\* an ENTERPRISE tenant with override 1 is refused at one active session, and
\* a tenant with override 0 has been refused with none
C25_Witness ==
    /\ smLast.shop = "s6" /\ smLast.result = "reject_shop" /\ smLast.pre_active = 1
    /\ ActiveCount("s6") = 1
    /\ can_accept_call("s5") = "reject_shop"

\* ------------------------------------------------------------------------
\* call_queue.py
\* ------------------------------------------------------------------------
QShops == {"q1", "q2"}
CallSids == {"a", "b"}
TimeoutSeconds == {1, 2}

\* shop_config.settings.max_queue_size of each shop (0 = no limit)
QueueMaxSize == [s \in QShops |-> IF s = "q1" THEN 2 ELSE 0]

\* max_size = 5  # Default fallback
DefaultMaxQueueSize == 5

\* A QueuedCall: call_sid and timeout_at (= queued_at + timeout_seconds) as in
\* the dataclass; ord numbers the accepted calls in the order enqueue accepted
\* them (the fields no method reads, queued_at and the phone numbers, are left
\* out).
QueuedCall(sid, timeout_at, ord) ==
    [call_sid |-> sid, timeout_at |-> timeout_at, ord |-> ord]

QInit ==
    /\ queues = <<>>
    /\ queue_lock = "free"
    /\ now = 0
    /\ enqueued = 0
    /\ dequeued = [s \in QShops |-> 0]
    /\ qRet = "None"

\* QueuedCall.is_expired() when it never reports expiry
is_expired_never(call, t) == FALSE

\* QueuedCall.is_expired() at time t
is_expired(call, t) == t > call.timeout_at

\* The items remove_expired puts back, in reverse order
NotExpiredReversed(q, t) ==
    LET keep == SelectSeq(q, LAMBDA c : ~is_expired(c, t))
    IN  [i \in 1..Len(keep) |-> keep[Len(keep) + 1 - i]]

\* remove_expired: temp_items, the items that are put back, in the order they
\* were taken out
NotExpired(q, t) == SelectSeq(q, LAMBDA c : ~is_expired(c, t))

\* remove_expired: the expired list of one queue
Expired(q, t) == SelectSeq(q, LAMBDA c : is_expired(c, t))

\* The size check of enqueue with > for >=
queue_full_off_by_one(size, max_size) == max_size > 0 /\ size > max_size

\* enqueue: max_size > 0 and queue.qsize() >= max_size
queue_full(size, max_size) == max_size > 0 /\ size >= max_size

\* get_queue_size(shop_id)
get_queue_size(shop) == IF shop \notin DOMAIN queues THEN 0 ELSE Len(queues[shop])

\* enqueue: max_size, read from get_shop_config_by_id(...).settings when
\* lookup_ok, the default when that read raised
max_size_for(shop, lookup_ok) ==
    IF lookup_ok THEN QueueMaxSize[shop] ELSE DefaultMaxQueueSize

\* An enqueue whose size check counts only the entries that have not expired
enqueue_counts_unexpired(sid, shop, timeout, lookup_ok) ==
    /\ queue_lock = "free"
    /\ LET q == DictGet(queues, shop, <<>>)
       IN  IF queue_full(Len(NotExpired(q, now)), max_size_for(shop, lookup_ok))
           THEN /\ queues' = DictSet(queues, shop, q)
                /\ enqueued' = enqueued
                /\ qRet' = "False"
           ELSE /\ queues' = DictSet(queues, shop,
                                Append(q, QueuedCall(sid, now + timeout, enqueued + 1)))
                /\ enqueued' = enqueued + 1
                /\ qRet' = "True"
    /\ UNCHANGED <<queue_lock, now, dequeued>>

\* CallQueue.enqueue(call_sid, ..., shop_id, timeout_seconds)
enqueue(sid, shop, timeout, lookup_ok) ==
    /\ queue_lock = "free"
    /\ LET q == DictGet(queues, shop, <<>>)
       IN  IF queue_full(Len(q), max_size_for(shop, lookup_ok))
           THEN /\ queues' = DictSet(queues, shop, q)
                /\ enqueued' = enqueued
                /\ qRet' = "False"
           ELSE /\ queues' = DictSet(queues, shop,
                                Append(q, QueuedCall(sid, now + timeout, enqueued + 1)))
                /\ enqueued' = enqueued + 1
                /\ qRet' = "True"
    /\ UNCHANGED <<queue_lock, now, dequeued>>

\* CallQueue.dequeue(shop_id). When the item taken is expired the method calls
\* itself while still inside `async with self._lock`; asyncio.Lock is not
\* reentrant, so the inner call waits for the lock its caller holds: the item
\* is gone, the call never returns and the lock is never released.
dequeue(shop) ==
    /\ queue_lock = "free"
    /\ IF shop \notin DOMAIN queues \/ DictGet(queues, shop, <<>>) = <<>>
       THEN /\ qRet' = "None"
            /\ UNCHANGED <<queues, queue_lock, dequeued>>
       ELSE LET call == Head(queues[shop])
            IN  /\ queues' = DictSet(queues, shop, Tail(queues[shop]))
                /\ IF is_expired(call, now)
                   THEN /\ queue_lock' = "held"
                        /\ dequeued' = dequeued
                        /\ qRet' = "blocked"
                   ELSE /\ queue_lock' = queue_lock
                        /\ dequeued' = [dequeued EXCEPT ![shop] = call.ord]
                        /\ qRet' = call.call_sid
    /\ UNCHANGED <<now, enqueued>>

\* CallQueue.remove_expired()
remove_expired ==
    /\ queue_lock = "free"
    /\ queues' = [s \in {x \in DOMAIN queues : NotExpired(queues[x], now) # <<>>} |->
                     NotExpired(queues[s], now)]
    /\ qRet' = IF \E s \in DOMAIN queues : Expired(queues[s], now) # <<>>
               THEN "expired" ELSE "None"
    /\ UNCHANGED <<queue_lock, now, enqueued, dequeued>>

\* CallQueue.clear_shop_queue(shop_id)
clear_shop_queue(shop) ==
    /\ queue_lock = "free"
    /\ shop \in DOMAIN queues
    /\ queues' = DictDel(queues, shop)
    /\ qRet' = "None"
    /\ UNCHANGED <<queue_lock, now, enqueued, dequeued>>

\* time.time() advances
Tick ==
    /\ now < MaxTime
    /\ now' = now + 1
    /\ UNCHANGED <<queues, queue_lock, enqueued, dequeued, qRet>>

Enqueue ==
    /\ enqueued < MaxEnqueues
    /\ \E sid \in CallSids, s \in QShops, t \in TimeoutSeconds, ok \in BOOLEAN :
           enqueue(sid, s, t, ok)
\* enqueue for the shop configured with a maximum, by one caller with one
\* timeout, often enough to fill its queue to the default maximum
EnqueueFill ==
    /\ enqueued < MaxFill
    /\ \E ok \in BOOLEAN : enqueue("a", "q1", 1, ok)
Dequeue == \E s \in QShops : dequeue(s)
RemoveExpired == remove_expired
ClearShopQueue == \E s \in QShops : clear_shop_queue(s)

QNext == Enqueue \/ Dequeue \/ RemoveExpired \/ ClearShopQueue \/ Tick

QFillNext == EnqueueFill \/ Dequeue \/ RemoveExpired \/ ClearShopQueue \/ Tick

\* C6: within one tenant's queue calls are dequeued in the order they were
\* enqueued: every queue holds its calls oldest first, and every call still
\* queued was enqueued after the call dequeue last returned for that tenant,
\* under any interleaving of enqueue, dequeue, sweep and clear on any tenant.
C6_QueueFifo ==
    \A s \in DOMAIN queues :
        /\ \A i, j \in 1..Len(queues[s]) : i < j => queues[s][i].ord < queues[s][j].ord
        /\ \A i \in 1..Len(queues[s]) : queues[s][i].ord > dequeued[s]

\* C6 witness: dequeue has just returned a call of a tenant while a later call
\* of that tenant is still queued.
C6_Witness ==
    /\ qRet \in CallSids
    /\ \E s \in DOMAIN queues : dequeued[s] > 0 /\ Len(queues[s]) > 0

\* C7 as stated: for a tenant with configured maximum queue size M > 0 the
\* queue never holds more than M entries.
C7_QueueNeverExceedsConfiguredMax ==
    \A s \in QShops : QueueMaxSize[s] > 0 => get_queue_size(s) <= QueueMaxSize[s]

\* C7 amended: for a tenant with configured maximum M > 0 the queue never holds
\* more than max(M, 5) entries (5 is the maximum enqueue falls back to when
\* reading the shop configuration raises), and an enqueue that finds at least
\* the maximum in effect for that call already queued returns False and leaves
\* the queue unchanged.
C7_QueueBoundedByEffectiveMax ==
    /\ [](\A s \in QShops : QueueMaxSize[s] > 0 =>
              get_queue_size(s) <= Max(QueueMaxSize[s], DefaultMaxQueueSize))
    /\ [][\A s \in QShops, ok \in BOOLEAN :
              (/\ enqueue("a", s, 1, ok)
               /\ max_size_for(s, ok) > 0
               /\ get_queue_size(s) >= max_size_for(s, ok))
                  => /\ qRet' = "False"
                     /\ s \in DOMAIN queues
                     /\ queues'[s] = queues[s]]_vars

\* C7 witness: an enqueue was rejected on the tenant configured with M = 2
\* while its queue held the default maximum of 5 entries.
C7_Witness ==
    /\ qRet = "False"
    /\ QueueMaxSize["q1"] > 0
    /\ get_queue_size("q1") = DefaultMaxQueueSize

\* C37: expired entries that have not been swept still occupy capacity: an
\* enqueue that finds at least the maximum number of entries in the tenant
\* queue, expired or not, returns False and adds nothing; get_queue_size is the
\* number of entries held, expired ones included, and the passing of time
\* alone (entries expiring) does not change it.
C37_ExpiredEntriesOccupyCapacity ==
    /\ [](\A s \in QShops :
              get_queue_size(s) = Len(Expired(DictGet(queues, s, <<>>), now))
                                    + Len(NotExpired(DictGet(queues, s, <<>>), now)))
    /\ [][\A sid \in CallSids, s \in QShops, t \in TimeoutSeconds, ok \in BOOLEAN :
              (/\ max_size_for(s, ok) > 0
               /\ s \in DOMAIN queues
               /\ Len(queues[s]) >= max_size_for(s, ok)
               /\ enqueue(sid, s, t, ok))
                  => /\ qRet' = "False"
                     /\ queues'[s] = queues[s]
                     /\ enqueued' = enqueued]_vars
    /\ [][now' # now => \A s \in QShops :
              IF s \in DOMAIN queues'
              THEN s \in DOMAIN queues /\ Len(queues'[s]) = get_queue_size(s)
              ELSE get_queue_size(s) = 0]_vars

\* C37 witness: an enqueue was rejected on the tenant configured with a maximum
\* of 2 while both entries of its queue were expired.
C37_Witness ==
    /\ qRet = "False"
    /\ "q1" \in DOMAIN queues
    /\ Len(queues["q1"]) = QueueMaxSize["q1"]
    /\ Expired(queues["q1"], now) = queues["q1"]

\* C8: dequeue never returns a queued call whose expiry time has passed.
C8_NoExpiredCallDequeued ==
    [][\A s \in QShops :
          dequeued'[s] # dequeued[s]
              => \E i \in 1..Len(queues[s]) :
                     /\ queues[s][i].ord = dequeued'[s]
                     /\ qRet' = queues[s][i].call_sid
                     /\ ~(now > queues[s][i].timeout_at)]_vars

\* C8 witness: dequeue took an expired call off the queue and discarded it.
C8_Witness ==
    /\ qRet = "blocked"
    /\ \E s \in DOMAIN queues : TRUE

\* C9: dequeue always returns (the next non-expired call or None, expired
\* calls discarded) and afterwards other queue operations can still proceed:
\* the queue lock is free again after every dequeue.
C9_DequeueAlwaysReturns ==
    /\ qRet # "blocked"
    /\ queue_lock = "free"

\* The queue entries (tenant, position) that carry call id sid
EntriesOf(sid) ==
    {e \in (DOMAIN queues) \X (1..MaxFill) :
         e[2] <= Len(queues[e[1]]) /\ queues[e[1]][e[2]].call_sid = sid}

\* C26: a call identifier appears in at most one queue entry across all tenant
\* queues at any time, after any sequence of enqueue, dequeue and sweep
\* operations, enqueueing the same call id twice included.
C26_CallIdInAtMostOneEntry ==
    \A sid \in CallSids : Cardinality(EntriesOf(sid)) <= 1

\* C27: a call queued because its tenant was at its limit is promoted once a
\* slot is free: a run of the background loop (_cleanup_loop, the only
\* background task of the queue) that finds a queued call that has not expired
\* while the tenant has a free slot pops the oldest such call of that tenant
\* for admission.
C27_BackgroundLoopPromotesOldest ==
    [][(remove_expired /\ global_active_count < max_global_concurrent_calls) =>
          \A s \in DOMAIN queues :
              NotExpired(queues[s], now) # <<>> =>
                  /\ dequeued'[s] = Head(NotExpired(queues[s], now)).ord
                  /\ DictGet(queues', s, <<>>) = Tail(NotExpired(queues[s], now))]_vars

\* Some tenant queue holds an entry whose expiry has passed
ExpiredQueued == \E s \in DOMAIN queues : Expired(queues[s], now) # <<>>

\* C28: each run of the periodic sweep removes from every tenant queue exactly
\* the entries whose expiry has passed and reports them as expired, keeps the
\* other entries queued in their original relative order, so that a swept call
\* is no longer in the queue; and the sweep, being periodic, gets every
\* expired entry out of the queues.
C28_SweepRemovesExactlyExpired ==
    /\ [][remove_expired =>
              /\ \A s \in DOMAIN queues :
                    DictGet(queues', s, <<>>) =
                        SelectSeq(queues[s], LAMBDA c : ~(now > c.timeout_at))
              /\ qRet' = "expired" <=> ExpiredQueued
              /\ ~ExpiredQueued']_vars
    /\ ExpiredQueued ~> ~ExpiredQueued

\* ------------------------------------------------------------------------
\* telephony.py, realtime_session.py, router.py
\* ------------------------------------------------------------------------
SessionState == {"idle", "connecting", "listening", "processing", "speaking",
                 "ended", "error"}

RealtimeEvents == {"SPEECH_STARTED", "SPEECH_STOPPED", "AUDIO_DELTA",
                   "FUNCTION_CALL_ARGS_DONE", "RESPONSE_DONE", "ERROR"}

\* session_id of the one session a handler run creates
SessionId == "sess"

\* RealtimeSession objects that callers hand to the registry
RegSessions == {"r1", "r2", "r3", "r4"}

\* RealtimeSession.session_id: the constructor takes the id from its caller
\* (TwilioRealtimeSession passes the call SID) or draws a uuid4; r1 and r2
\* were given the same id.
session_id(s) == CASE s \in {"r1", "r2"} -> SessionId
                   [] s = "r3" -> "id3"
                   [] OTHER -> "id4"

RegIds == {session_id(s) : s \in RegSessions}

\* the session object created by voice_stream
VoiceSession == "r1"

\* get_session's None
NoSession == "none"

NoRegistryCall == [op |-> "none", id |-> SessionId, session |-> NoSession,
                   pre |-> <<>>, ret |-> NoSession, raised |-> FALSE]

\* realtime_session.register_session: _active_sessions[session.session_id] = session
registry_register(reg, s) == DictSet(reg, session_id(s), s)

\* An unregister_session that removes nothing.
registry_unregister_nothing(reg, id) == reg

\* realtime_session.unregister_session: _active_sessions.pop(session_id, None)
registry_unregister(reg, id) == DictDel(reg, id)

\* realtime_session.get_session: _active_sessions.get(session_id)
get_session(reg, id) == DictGet(reg, id, NoSession)

\* no operation observed yet
NoOp == [op |-> "none", pre |-> "idle", path |-> <<>>, notified |-> <<>>,
         failed |-> "none", event |-> "none", cancels |-> 0, tool |-> "none",
         executes |-> 0, sends |-> 0, result |-> "none", logs |-> 0,
         audio_sends |-> 0,
         raised |-> FALSE, task |-> "none"]

TwInit ==
    /\ ws = "open"
    /\ endpoint = "none"
    /\ session = FALSE
    /\ has_shop = FALSE
    /\ active_sessions = <<>>
    /\ start_pc = "none"
    /\ state = "idle"
    /\ event_task = "none"
    /\ is_connected = FALSE
    /\ client_ws = FALSE
    /\ should_transfer = FALSE
    /\ tool_calls = <<>>
    /\ errors = 0
    /\ call_logs = <<>>
    /\ usage_increments = 0
    /\ stop_calls = 0
    /\ twLast = NoOp
    /\ total_audio_in_bytes = 0
    /\ orphaned_event_task = FALSE
    /\ registered_ids = {}
    /\ regLast = NoRegistryCall

\* A _set_state that calls the observer on every request.
set_state_unguarded(old, new, has_observer) ==
    [state |-> new, notified |-> IF has_observer THEN <<new>> ELSE <<>>]

\* RealtimeSession._set_state: the new state, and the states passed to
\* _on_state_change by this call (nothing when the state does not change or
\* no observer was given to the constructor).
set_state(old, new, has_observer) ==
    [state |-> new,
     notified |-> IF old # new /\ has_observer THEN <<new>> ELSE <<>>]

\* The observer calls made by the _set_state calls of one operation, which
\* requests the states of path in order starting from state old.
RECURSIVE Notified(_, _, _)
Notified(old, path, has_observer) ==
    IF path = <<>> THEN <<>>
    ELSE LET r == set_state(old, Head(path), has_observer)
         IN  r.notified \o Notified(r.state, Tail(path), has_observer)

\* self._state after the _set_state calls of one operation
FinalState(old, path) == IF path = <<>> THEN old ELSE path[Len(path)]

\* router.voice_stream passes on_state_change; TwilioRealtimeSession.__init__
\* passes none to RealtimeSession.__init__.
HasObserver(ep) == ep = "voice"

\* what one operation on the session did: its name, the state before it, the
\* states it requested and the observer calls that made (the other fields of
\* the record: the step that failed, the event handled, the calls made to
\* the transport, the tool executor and the call log, whether it raised)
OpRecord(op, ep, pre, path) ==
    [NoOp EXCEPT !.op = op, !.pre = pre, !.path = path,
                 !.notified = Notified(pre, path, HasObserver(ep))]

\* TwilioRealtimeSession._log_call: the outcome of the record
Outcome(transfer, st, tools) ==
    IF transfer THEN "TRANSFERRED"
    ELSE IF st = "error" THEN "FAILED"
    ELSE IF tools # <<>> THEN "RESOLVED"
    ELSE "ABANDONED"

\* RealtimeSession.stop() (cancel the event task, close the client, ENDED),
\* followed in TwilioRealtimeSession.stop() by _log_call (increment_usage
\* when the session has a shop id, one CallLog inserted). RealtimeClient.close
\* can raise only in self._ws.close(), that is when a WebSocket exists; the
\* exception then leaves stop() before the state change and the logging.
\* stop() calls neither release_call_slot nor unregister_session. It cancels
\* only the task _event_task refers to; close() clears _connected first, which
\* ends receive() and with it the loop of a task that start() had replaced.
StopEffects(close_ok) ==
    LET close_raises == client_ws /\ ~close_ok
        path == IF close_raises THEN <<>> ELSE <<"ended">>
    IN  /\ stop_calls' = stop_calls + 1
        /\ event_task' = "none"
        /\ orphaned_event_task' = FALSE
        /\ is_connected' = FALSE
        /\ client_ws' = close_raises
        /\ state' = FinalState(state, path)
        /\ IF ~close_raises /\ endpoint = "twilio"
           THEN /\ usage_increments' = IF has_shop THEN usage_increments + 1
                                       ELSE usage_increments
                /\ call_logs' = Append(call_logs,
                                       Outcome(should_transfer, state', tool_calls))
           ELSE UNCHANGED <<usage_increments, call_logs>>
        /\ twLast' = [OpRecord("stop", endpoint, state, path) EXCEPT
                        !.failed = IF close_raises THEN "close" ELSE "none",
                        !.logs = Len(call_logs') - Len(call_logs),
                        !.raised = close_raises]

\* router.voice_stream up to its first await inside start(): the session is
\* created with the observer, registered, and start() requests CONNECTING.
VoiceOpen ==
    /\ ws = "open"
    /\ endpoint = "none"
    /\ session' = TRUE
    /\ endpoint' = "voice"
    /\ active_sessions' = registry_register(active_sessions, VoiceSession)
    /\ state' = FinalState(state, <<"connecting">>)
    /\ start_pc' = "connect"
    /\ twLast' = OpRecord("start_begin", "voice", state, <<"connecting">>)
    /\ UNCHANGED <<total_audio_in_bytes, orphaned_event_task>>
    /\ registered_ids' = registered_ids \cup {session_id(VoiceSession)}
    /\ UNCHANGED regLast
    /\ UNCHANGED <<ws, has_shop, event_task, is_connected, client_ws, should_transfer,
                   tool_calls, errors, call_logs, usage_increments, stop_calls>>

\* Twilio "start" message: twilio_media_stream creates the session on the
\* first one (it is not registered), then handle_twilio_message runs start()
\* up to its first await: CONNECTING.
TwilioStartBegin(shop) ==
    /\ ws = "open"
    /\ endpoint \in {"none", "twilio"}
    /\ start_pc = "none"
    /\ session' = TRUE
    /\ endpoint' = "twilio"
    /\ has_shop' = IF session THEN has_shop ELSE shop
    /\ state' = FinalState(state, <<"connecting">>)
    /\ start_pc' = "connect"
    /\ twLast' = OpRecord("start_begin", "twilio", state, <<"connecting">>)
    /\ UNCHANGED <<total_audio_in_bytes, orphaned_event_task>>
    /\ UNCHANGED <<registered_ids, regLast>>
    /\ UNCHANGED <<ws, active_sessions, event_task, is_connected, client_ws,
                   should_transfer, tool_calls, errors, call_logs, usage_increments,
                   stop_calls>>

\* start(): the step of its try block that raises, "none" when none does.
\* Only TwilioRealtimeSession.start sends a greeting.
start_failed_step(connected, configure_ok, greeting_ok) ==
    IF ~connected THEN "connect"
    ELSE IF ~configure_ok THEN "configure"
    ELSE IF ~greeting_ok THEN "greeting"
    ELSE "none"

\* A start() whose except clause neither changes the state nor re-raises.
start_path_swallows(failed) == <<"listening">>

\* start(): the states requested after CONNECTING. LISTENING is requested
\* after connect and configure_session; the except clause records the error,
\* requests ERROR and re-raises.
start_path(failed) ==
    IF failed = "none" THEN <<"listening">>
    ELSE IF failed = "greeting" THEN <<"listening", "error">>
    ELSE <<"error">>

\* The rest of start(): connect (returns at once when already connected),
\* configure_session, the event task, LISTENING, the Twilio greeting.
\* voice_stream leaves for its finally block when start() raises;
\* handle_twilio_message swallows the exception.
StartFinish(connect_ok, configure_ok, greet_ok) ==
    /\ ws = "open"
    /\ start_pc = "connect"
    /\ LET connected == is_connected \/ connect_ok
           failed == start_failed_step(connected, configure_ok,
                                       endpoint = "voice" \/ greet_ok)
           path == start_path(failed)
       IN  /\ failed # "none" => errors < MaxErrors
           /\ is_connected' = connected
           /\ client_ws' = (client_ws \/ connected)
           /\ event_task' = IF failed \in {"none", "greeting"} THEN "running"
                            ELSE event_task
           /\ orphaned_event_task' =
                  (orphaned_event_task
                     \/ (failed \in {"none", "greeting"} /\ event_task = "running"))
           /\ state' = FinalState(state, path)
           /\ errors' = IF failed = "none" THEN errors ELSE errors + 1
           /\ start_pc' = IF endpoint = "voice" /\ failed # "none" THEN "failed"
                          ELSE "none"
           /\ twLast' = [OpRecord("start", endpoint, state, path)
                           EXCEPT !.failed = failed, !.raised = (failed # "none")]
    /\ UNCHANGED total_audio_in_bytes
    /\ UNCHANGED <<registered_ids, regLast>>
    /\ UNCHANGED <<ws, endpoint, session, has_shop, active_sessions, should_transfer,
                   tool_calls, call_logs, usage_increments, stop_calls>>

\* Twilio "stop" message: handle_twilio_message calls stop()
TwilioStop(close_ok) ==
    /\ ws = "open"
    /\ endpoint = "twilio"
    /\ start_pc = "none"
    /\ stop_calls < MaxStops
    /\ StopEffects(close_ok)
    /\ UNCHANGED total_audio_in_bytes
    /\ UNCHANGED <<registered_ids, regLast>>
    /\ UNCHANGED <<ws, endpoint, session, has_shop, active_sessions, start_pc,
                   should_transfer, tool_calls, errors>>

\* The WebSocket handler leaves its loop (disconnect, "end" message, an
\* exception, or cancellation while start() is pending); its finally block
\* runs when a session exists: voice_stream unregisters the session and then
\* calls stop(), twilio_media_stream calls stop().
HandlerExit(close_ok) ==
    /\ ws = "open"
    /\ ws' = "closed"
    /\ start_pc' = "none"
    /\ IF session
       THEN /\ active_sessions' = IF endpoint = "voice"
                                  THEN registry_unregister(active_sessions, SessionId)
                                  ELSE active_sessions
            /\ registered_ids' = IF endpoint = "voice"
                                 THEN registered_ids \ {SessionId}
                                 ELSE registered_ids
            /\ StopEffects(close_ok)
       ELSE UNCHANGED <<active_sessions, registered_ids, state, event_task,
                        orphaned_event_task, is_connected, client_ws,
                        call_logs, usage_increments, stop_calls, twLast>>
    /\ UNCHANGED total_audio_in_bytes
    /\ UNCHANGED regLast
    /\ UNCHANGED <<endpoint, session, has_shop, should_transfer, tool_calls, errors>>

\* A barge-in handler that never asks the transport to cancel.
cancel_calls_never(st, twilio, send_ok) == 0

\* SPEECH_STARTED: the number of client.cancel_response() calls. The base
\* _handle_event calls it once in SPEAKING; TwilioRealtimeSession._handle_event
\* calls it itself and then runs the base handler with the state still
\* SPEAKING. A call that raises ends the handler.
cancel_calls(st, twilio, send_ok) ==
    IF st # "speaking" THEN 0
    ELSE IF twilio /\ send_ok THEN 2
    ELSE 1

\* _handle_function_call without its except clause
function_call_raises_uncaught(tool, s1, s2) == tool = "raised" \/ ~s1

\* _handle_function_call: whether its try block raises (tools.execute, or the
\* send_function_result that follows it)
try_raises(tool, s1) == tool = "raised" \/ ~s1

\* _handle_function_call: number of tools.execute calls
execute_calls == 1

\* A _handle_function_call that sends the tool's result a second time
send_calls_twice(tool, s1) == 2

\* _handle_function_call: number of client.send_function_result calls; the
\* except clause makes one more when the try block raised
send_calls(tool, s1) ==
    IF tool # "raised" /\ ~s1 THEN 2 ELSE 1

\* _handle_function_call: the result the transport accepted: the tool's own
\* result, the error map of the except clause, or none
function_result(tool, s1, s2) ==
    IF ~try_raises(tool, s1) THEN (IF tool = "ok" THEN "success" ELSE "failure")
    ELSE IF s2 THEN "failure"
    ELSE "none"

\* _handle_function_call raises when the send of its except clause raises
function_call_raises(tool, s1, s2) == try_raises(tool, s1) /\ ~s2

\* The tasks running _event_loop for the session: the one _event_task refers
\* to, and one that start() created earlier and a later start() replaced in
\* _event_task (start() never cancels the task it replaces). All of them
\* iterate the same client.receive().
LiveEventTasks ==
    (IF event_task = "running" THEN {"current"} ELSE {})
        \cup (IF orphaned_event_task THEN {"orphan"} ELSE {})

\* _event_loop of task ends when an exception reaches its except clause
TaskEnds(raised, task) ==
    /\ event_task' = IF raised /\ task = "current" THEN "done" ELSE event_task
    /\ orphaned_event_task' = IF raised /\ task = "orphan" THEN FALSE
                               ELSE orphaned_event_task

\* One event from the Realtime API handled by the event task:
\* TwilioRealtimeSession._handle_event for a Twilio session, then
\* RealtimeSession._handle_event. fn is the function name; tool the outcome of
\* tools.execute ("ok": the tool's result, "failed": the {"success": False,
\* "error": ...} map execute returns for an unknown tool or a caught
\* exception, "raised"); send_ok, s1, s2 whether client.cancel_response and
\* the first and second client.send_function_result succeed. An exception
\* leaving the handler is caught by _event_loop: the error is recorded, ERROR
\* is requested and the task ends.
HandleEvent(e, fn, tool, status, send_ok, s1, s2) ==
    /\ LiveEventTasks # {}
    /\ LET twilio == endpoint = "twilio"
           raised == CASE e = "SPEECH_STARTED" -> state = "speaking" /\ ~send_ok
                       [] e = "FUNCTION_CALL_ARGS_DONE" -> function_call_raises(tool, s1, s2)
                       [] OTHER -> FALSE
           path == IF raised THEN <<"error">>
                   ELSE CASE e = "SPEECH_STARTED" -> <<"listening">>
                          [] e = "SPEECH_STOPPED" -> <<"processing">>
                          [] e = "AUDIO_DELTA" -> <<"speaking">>
                          [] e = "RESPONSE_DONE" /\ status \in {"completed", "cancelled"}
                               -> <<"listening">>
                          [] OTHER -> <<>>
           recorded == raised \/ e = "ERROR"
           call == e = "FUNCTION_CALL_ARGS_DONE"
       IN  /\ recorded => errors < MaxErrors
           /\ errors' = IF recorded THEN errors + 1 ELSE errors
           /\ state' = FinalState(state, path)
           /\ should_transfer' = (should_transfer
                                    \/ (call /\ twilio /\ fn = "transfer_to_human"))
           /\ IF call /\ tool # "raised"
              THEN /\ Len(tool_calls) < MaxToolCalls
                   /\ tool_calls' = Append(tool_calls, tool = "ok")
              ELSE tool_calls' = tool_calls
           /\ \E task \in (IF raised THEN LiveEventTasks
                            ELSE {CHOOSE t \in LiveEventTasks : TRUE}) :
                /\ TaskEnds(raised, task)
                /\ twLast' = [OpRecord("event", endpoint, state, path) EXCEPT
                           !.task = task,
                           !.event = e,
                           !.raised = raised,
                           !.cancels = IF e = "SPEECH_STARTED"
                                       THEN cancel_calls(state, twilio, send_ok) ELSE 0,
                           !.tool = IF call THEN tool ELSE "none",
                           !.executes = IF call THEN execute_calls ELSE 0,
                           !.sends = IF call THEN send_calls(tool, s1) ELSE 0,
                           !.result = IF call THEN function_result(tool, s1, s2)
                                      ELSE "none"]
    /\ UNCHANGED total_audio_in_bytes
    /\ UNCHANGED <<registered_ids, regLast>>
    /\ UNCHANGED <<ws, endpoint, session, has_shop, active_sessions, start_pc,
                   is_connected, client_ws, call_logs, usage_increments, stop_calls>>

\* RealtimeSession._event_loop: client.receive() raises; the error is
\* recorded, the session goes to ERROR and the task ends.
EventLoopFails ==
    /\ errors < MaxErrors
    /\ errors' = errors + 1
    /\ state' = FinalState(state, <<"error">>)
    /\ \E task \in LiveEventTasks :
           /\ TaskEnds(TRUE, task)
           /\ twLast' = [OpRecord("event_loop", endpoint, state, <<"error">>) EXCEPT
                           !.task = task]
    /\ UNCHANGED total_audio_in_bytes
    /\ UNCHANGED <<registered_ids, regLast>>
    /\ UNCHANGED <<ws, endpoint, session, has_shop, active_sessions, start_pc,
                   is_connected, client_ws, should_transfer, tool_calls, call_logs,
                   usage_increments, stop_calls>>

\* A send_audio without its is_connected test.
audio_forwarded_always(connected) == TRUE

\* RealtimeSession.send_audio: whether the chunk is counted and handed to
\* client.send_audio; `if not self.client.is_connected: ... return` otherwise.
audio_forwarded(connected) == connected

\* Lengths of the inbound audio chunks
ChunkSizes == {1, 2}

\* An inbound audio chunk of n bytes: voice_stream calls session.send_audio
\* for a binary message, handle_twilio_message for a "media" message when
\* client.is_connected. The counter is raised before client.send_audio is
\* awaited. An exception of client.send_audio is swallowed by
\* twilio_media_stream and sends voice_stream to its finally block.
SendAudio(n, send_ok) ==
    /\ ws = "open"
    /\ session
    /\ start_pc = "none"
    /\ LET forwarded == audio_forwarded(is_connected /\ client_ws)
           raised == forwarded /\ ~send_ok
       IN  /\ forwarded => total_audio_in_bytes + n <= MaxAudioBytes
           /\ total_audio_in_bytes' = IF forwarded THEN total_audio_in_bytes + n
                                      ELSE total_audio_in_bytes
           /\ start_pc' = IF raised /\ endpoint = "voice" THEN "failed" ELSE start_pc
           /\ twLast' = [OpRecord("send_audio", endpoint, state, <<>>) EXCEPT
                           !.audio_sends = IF forwarded THEN 1 ELSE 0,
                           !.raised = raised]
    /\ UNCHANGED <<registered_ids, regLast, orphaned_event_task>>
    /\ UNCHANGED <<ws, endpoint, session, has_shop, active_sessions, state, event_task,
                   is_connected, client_ws, should_transfer, tool_calls, errors,
                   call_logs, usage_increments, stop_calls>>

\* RealtimeClient._receive_loop ends (the API closed the connection): its
\* finally clause clears _connected; _ws stays.
ReceiveLoopEnds ==
    /\ is_connected
    /\ is_connected' = FALSE
    /\ UNCHANGED <<registered_ids, regLast>>
    /\ UNCHANGED <<ws, endpoint, session, has_shop, active_sessions, start_pc, state,
                   event_task, client_ws, should_transfer, tool_calls, errors, call_logs,
                   usage_increments, stop_calls, twLast, total_audio_in_bytes,
                   orphaned_event_task>>

TwStartBegin == \E shop \in BOOLEAN : TwilioStartBegin(shop)
TwStartFinish == \E c, g, t \in BOOLEAN : StartFinish(c, g, t)
TwStopMessage == \E ok \in BOOLEAN : TwilioStop(ok)
TwHandlerExit == \E ok \in BOOLEAN : HandlerExit(ok)
\* The inputs an event's handler reads; the others are fixed.
FunctionNames(e) == IF e = "FUNCTION_CALL_ARGS_DONE"
                    THEN {"transfer_to_human", "get_business_hours"}
                    ELSE {"get_business_hours"}
ToolOutcomes(e) == IF e = "FUNCTION_CALL_ARGS_DONE" THEN {"ok", "failed", "raised"}
                   ELSE {"ok"}
ResponseStatuses(e) == IF e = "RESPONSE_DONE" THEN {"completed", "cancelled", "failed"}
                       ELSE {"completed"}
CancelOutcomes(e) == IF e = "SPEECH_STARTED" THEN BOOLEAN ELSE {TRUE}
SendOutcomes(e) == IF e = "FUNCTION_CALL_ARGS_DONE" THEN BOOLEAN ELSE {TRUE}

TwEvent == \E e \in RealtimeEvents :
             \E fn \in FunctionNames(e), tool \in ToolOutcomes(e),
                status \in ResponseStatuses(e), send_ok \in CancelOutcomes(e),
                s1, s2 \in SendOutcomes(e) :
                  HandleEvent(e, fn, tool, status, send_ok, s1, s2)

TwNext ==
    \/ VoiceOpen
    \/ TwStartBegin
    \/ TwStartFinish
    \/ TwStopMessage
    \/ TwHandlerExit
    \/ TwEvent
    \/ EventLoopFails

\* The registry functions of realtime_session.py, called with any session and
\* any id. cleanup_session pops the entry and then awaits the stop() of the
\* session it found, which can raise.
RegistryRegister(s) ==
    /\ active_sessions' = registry_register(active_sessions, s)
    /\ registered_ids' = registered_ids \cup {session_id(s)}
    /\ regLast' = [NoRegistryCall EXCEPT !.op = "register", !.id = session_id(s),
                                         !.session = s, !.pre = active_sessions]

RegistryUnregister(id) ==
    /\ active_sessions' = registry_unregister(active_sessions, id)
    /\ registered_ids' = registered_ids \ {id}
    /\ regLast' = [NoRegistryCall EXCEPT !.op = "unregister", !.id = id,
                                         !.pre = active_sessions]

RegistryGet(id) ==
    /\ UNCHANGED <<active_sessions, registered_ids>>
    /\ regLast' = [NoRegistryCall EXCEPT !.op = "get", !.id = id,
                                         !.pre = active_sessions,
                                         !.ret = get_session(active_sessions, id)]

RegistryCleanup(id, stop_ok) ==
    /\ active_sessions' = registry_unregister(active_sessions, id)
    /\ registered_ids' = registered_ids \ {id}
    /\ regLast' = [NoRegistryCall EXCEPT !.op = "cleanup", !.id = id,
                                         !.pre = active_sessions,
                                         !.session = get_session(active_sessions, id),
                                         !.raised = (id \in DOMAIN active_sessions
                                                       /\ ~stop_ok)]

RegRegister == \E s \in RegSessions : RegistryRegister(s)
RegUnregister == \E id \in RegIds : RegistryUnregister(id)
RegGet == \E id \in RegIds : RegistryGet(id)
RegCleanup == \E id \in RegIds, stop_ok \in BOOLEAN : RegistryCleanup(id, stop_ok)

RegNext == RegRegister \/ RegUnregister \/ RegGet \/ RegCleanup

TwSendAudio == \E n \in ChunkSizes, send_ok \in BOOLEAN : SendAudio(n, send_ok)

\* the handlers' audio path: session start, inbound audio, loss of the API
\* connection, teardown
AudioNext ==
    \/ VoiceOpen
    \/ TwStartBegin
    \/ TwStartFinish
    \/ TwSendAudio
    \/ ReceiveLoopEnds
    \/ TwStopMessage
    \/ TwHandlerExit

\* C10: calling stop() twice on the same session (on the Twilio "stop"
\* message and again when the WebSocket handler exits) emits one call record
\* and increments usage once; the second call is a no-op.
C10_StopTwiceLogsOnce ==
    stop_calls >= 2 => Len(call_logs) <= 1 /\ usage_increments <= 1

\* C11: if the transport's close() raises during stop(), the session's
\* limiter slot is still released (release_call_slot is called) and its
\* registry entry is still removed.
C11_TeardownCompleteWhenCloseRaises ==
    (twLast.op = "stop" /\ twLast.failed = "close") =>
        /\ limLast.op = "release"
        /\ SessionId \notin DOMAIN active_sessions

\* C12: if the transport's close() raises during stop(), stop() does not
\* raise, the session is ENDED and, for a telephony session, the terminal
\* call record has been emitted.
C12_StopSwallowsCloseFailure ==
    (twLast.op = "stop" /\ twLast.failed = "close") =>
        /\ ~twLast.raised
        /\ state = "ended"
        /\ endpoint = "twilio" => twLast.logs = 1

\* C13: after stop(), from whatever state the session was in, the limiter
\* slot has been released, the session id is not in the registry and stop()
\* did not raise.
C13_StopGivesBackSlotAndEntry ==
    twLast.op = "stop" =>
        /\ limLast.op = "release"
        /\ SessionId \notin DOMAIN active_sessions
        /\ ~twLast.raised

\* a speech-started event was the last thing handled, and it arrived in SPEAKING
BargeIn ==
    /\ twLast.op = "event"
    /\ twLast.event = "SPEECH_STARTED"
    /\ twLast.pre = "speaking"

\* C14 as stated: a speech-started event received in SPEAKING always results
\* in a cancel-response request and leaves the session in LISTENING.
C14_BargeInAlwaysListening ==
    BargeIn => twLast.cancels >= 1 /\ state = "listening"

\* C14 amended: a speech-started event received in SPEAKING always results in
\* a cancel-response request; the session is left in LISTENING when the
\* transport accepted the request and in ERROR (event task ended) when the
\* request raised; it never remains in SPEAKING.
C14_BargeInCancelsAndLeavesSpeaking ==
    BargeIn =>
        /\ twLast.cancels >= 1
        /\ state # "speaking"
        /\ IF twLast.raised THEN state = "error" /\ twLast.task \notin LiveEventTasks
           ELSE state = "listening"

C14_Witness ==
    /\ BargeIn
    /\ ~twLast.raised
    /\ twLast.cancels >= 1
    /\ state = "listening"

\* C15: on one barge-in the session calls the transport's cancel-response
\* operation exactly once, base session and Twilio session alike.
C15_BargeInCancelsExactlyOnce ==
    BargeIn => twLast.cancels = 1

\* the state changes among the states requested in path, starting from old
RECURSIVE Changes(_, _)
Changes(old, path) ==
    IF path = <<>> THEN <<>>
    ELSE (IF Head(path) # old THEN <<Head(path)>> ELSE <<>>)
             \o Changes(Head(path), Tail(path))

\* C16: with an observer registered, the observer calls of every operation
\* are exactly its state changes, each once and with the new state; a request
\* for the state the session is already in calls nothing and changes nothing.
C16_ObserverCalledOncePerChange ==
    HasObserver(endpoint) =>
        /\ twLast.notified = Changes(twLast.pre, twLast.path)
        /\ (twLast.path = <<twLast.pre>>) => (twLast.notified = <<>> /\ state = twLast.pre)

C16_Witness ==
    /\ HasObserver(endpoint)
    /\ twLast.op = "event"
    /\ twLast.pre = "speaking"
    /\ twLast.path = <<"listening">>
    /\ twLast.notified = <<"listening">>
    /\ state = "listening"

\* C17: start() requests CONNECTING first (IDLE -> CONNECTING on a new
\* session); it then reaches LISTENING when connect and configure succeed;
\* when connect or configure fails it adds one entry to the error list, ends
\* in ERROR without having been in LISTENING, and raises.
C17_StartListeningOrError ==
    [][/\ twLast'.op = "start_begin" =>
            /\ state' = "connecting"
            /\ state = "idle" => twLast'.path = <<"connecting">>
       /\ twLast'.op = "start" =>
            /\ twLast'.failed = "none" =>
                 /\ state' = "listening"
                 /\ ~twLast'.raised
                 /\ errors' = errors
            /\ twLast'.failed \in {"none", "greeting"} =>
                 Head(twLast'.path) = "listening"
            /\ twLast'.failed \in {"connect", "configure"} =>
                 /\ state' = "error"
                 /\ twLast'.path = <<"error">>
                 /\ errors' = errors + 1
                 /\ twLast'.raised]_vars

C17_Witness ==
    /\ twLast.op = "start"
    /\ twLast.pre = "connecting"
    /\ twLast.failed = "configure"
    /\ state = "error"
    /\ errors = 1

\* the tool executor failed for the function call handled last: execute
\* returned its {"success": False, "error": ...} map or raised
ToolFailed ==
    /\ twLast.op = "event"
    /\ twLast.event = "FUNCTION_CALL_ARGS_DONE"
    /\ twLast.tool \in {"failed", "raised"}

FunctionCall ==
    /\ twLast.op = "event"
    /\ twLast.event = "FUNCTION_CALL_ARGS_DONE"

C20_ErrorSessionLoggedFailed ==
    (/\ twLast.op = "stop"
     /\ endpoint = "twilio"
     /\ twLast.pre = "error"
     /\ ~should_transfer) =>
        /\ twLast.logs = 1
        /\ call_logs[Len(call_logs)] = "FAILED"

\* C21: the terminal call record has outcome RESOLVED only if at least one
\* recorded tool call of the session returned a success result.
C21_ResolvedOnlyWithSuccessfulTool ==
    (/\ twLast.op = "stop"
     /\ twLast.logs = 1
     /\ call_logs[Len(call_logs)] = "RESOLVED") =>
        \E i \in 1..Len(tool_calls) : tool_calls[i]

\* C22: send_audio while the client is not connected does nothing: no call
\* to client.send_audio, the inbound byte counter unchanged, no exception.
C22_SendAudioNotConnectedNoOp ==
    [][(twLast'.op = "send_audio" /\ ~(is_connected /\ client_ws)) =>
          /\ twLast'.audio_sends = 0
          /\ total_audio_in_bytes' = total_audio_in_bytes
          /\ ~twLast'.raised
          /\ state' = state]_vars

C22_Witness ==
    /\ twLast.op = "send_audio"
    /\ ~is_connected
    /\ twLast.audio_sends = 0
    /\ total_audio_in_bytes = 1

\* C23: registering a session whose id is already in the registry does not
\* replace the entry: get(id) still returns the session registered before.
C23_RegisterKeepsExistingEntry ==
    (regLast.op = "register" /\ regLast.id \in DOMAIN regLast.pre) =>
        get_session(active_sessions, regLast.id) = regLast.pre[regLast.id]

\* C24: get_session(id) returns a session, one that carries this id, exactly
\* when id was registered and not unregistered or cleaned up since;
\* unregister raises nothing, leaves every other entry as it was, and changes
\* nothing at all for an id that is not registered.
C24_GetMatchesRegistrations ==
    /\ \A id \in RegIds :
          /\ get_session(active_sessions, id) # NoSession <=> id \in registered_ids
          /\ get_session(active_sessions, id) # NoSession =>
                session_id(get_session(active_sessions, id)) = id
    /\ regLast.op = "get" =>
          /\ regLast.ret = get_session(active_sessions, regLast.id)
          /\ active_sessions = regLast.pre
    /\ regLast.op = "register" =>
          get_session(active_sessions, regLast.id) = regLast.session
    /\ regLast.op \in {"unregister", "cleanup"} =>
          /\ get_session(active_sessions, regLast.id) = NoSession
          /\ \A other \in RegIds \ {regLast.id} :
                get_session(active_sessions, other) = get_session(regLast.pre, other)
    /\ regLast.op = "unregister" =>
          /\ ~regLast.raised
          /\ regLast.id \notin DOMAIN regLast.pre => active_sessions = regLast.pre

C24_Witness ==
    /\ regLast.op = "unregister"
    /\ regLast.id \notin DOMAIN regLast.pre
    /\ DOMAIN active_sessions = RegIds \ {regLast.id}

\* C29: a mid-session transport error (an ERROR event from the transport, or
\* an exception raised while receiving events) moves the session to ERROR and
\* is recorded in the session's error list.
C29_TransportErrorMovesToError ==
    ((twLast.op = "event" /\ twLast.event = "ERROR") \/ twLast.op = "event_loop") =>
        /\ state = "error"
        /\ errors > 0

\* C30: ENDED and ERROR are terminal: once the session's state is ENDED or
\* ERROR no later operation or event (stop(), transport events, Twilio
\* messages, the handler's exit) changes it.
C30_EndedAndErrorAreTerminal ==
    [][(state \in {"ended", "error"}) => (state' = state)]_vars

\* C31: at any time a session has at most one live event-processing task,
\* also when start is triggered more than once for the same session (repeated
\* Twilio "start" messages on one stream).
C31_AtMostOneEventTask ==
    Cardinality(LiveEventTasks) <= 1

\* ------------------------------------------------------------------------
\* booking_state.py, tools.py (propose_appointment, confirm_appointment)
\* ------------------------------------------------------------------------
\* A Python str is the sequence of its characters; NoString is None.
NoString == <<"None">>

Digits == {"0", "1", "2", "3", "4", "5", "6", "7", "8", "9"}

\* The date arguments the model supplies: "2025-01-16", "20250116",
\* "2025-01-17", "2025-1-16" and "" (argument missing or empty)
Date_2025_01_16 == <<"2", "0", "2", "5", "-", "0", "1", "-", "1", "6">>
Date_20250116 == <<"2", "0", "2", "5", "0", "1", "1", "6">>
Date_2025_01_17 == <<"2", "0", "2", "5", "-", "0", "1", "-", "1", "7">>
Date_2025_1_16 == <<"2", "0", "2", "5", "-", "1", "-", "1", "6">>
DateArgs == {Date_2025_01_16, Date_20250116, Date_2025_01_17, Date_2025_1_16, <<>>}

\* The time arguments: "15:00", "15:00:00", "15:30" and ""
Time_15_00 == <<"1", "5", ":", "0", "0">>
Time_15_00_00 == <<"1", "5", ":", "0", "0", ":", "0", "0">>
Time_15_30 == <<"1", "5", ":", "3", "0">>
TimeArgs == {Time_15_00, Time_15_00_00, Time_15_30, <<>>}

\* Python's s[a:b]
Slice(s, a, b) == SubSeq(s, a + 1, IF b <= Len(s) THEN b ELSE Len(s))

\* .replace(":", "").replace("-", "").replace("T", "")
Normalized(s) == SelectSeq(s, LAMBDA c : c \notin {":", "-", "T"})

\* f"{date}T{time}"
DateTimeString(date, time) == date \o <<"T">> \o time

\* `not x` for x a str or None
Falsy(x) == x = NoString \/ x = <<>>

\* A verify_confirmation that accepts every request
verify_confirmation_always(pd, pt, date, time) == TRUE

\* BookingState.verify_confirmation(date, time) on a state holding pd, pt
verify_confirmation(pd, pt, date, time) ==
    IF Falsy(pd) \/ Falsy(pt) THEN FALSE
    ELSE LET proposed_normalized == Normalized(DateTimeString(pd, pt))
             requested_normalized == Normalized(DateTimeString(date, time))
             date_match == pd = date
                             \/ Slice(proposed_normalized, 0, 8) =
                                    Slice(requested_normalized, 0, 8)
             time_match == pt = time
                             \/ Slice(proposed_normalized, 8, 12) =
                                    Slice(requested_normalized, 8, 12)
         IN  date_match /\ time_match

\* BookingState.has_proposal()
has_proposal == proposed_date # NoString /\ proposed_time # NoString

\* number of ":" in a time string
ColonCount(time) == Len(SelectSeq(time, LAMBDA c : c = ":"))

\* _handle_confirm_appointment: the string handed to datetime.fromisoformat
\* (":00" is appended when the time has at most one colon)
datetime_str(date, time) ==
    IF ColonCount(time) <= 1
    THEN DateTimeString(date, time) \o <<":", "0", "0">>
    ELSE DateTimeString(date, time)

\* datetime.fromisoformat accepts the string: a date YYYY-MM-DD or YYYYMMDD,
\* "T", a time HH:MM:SS (the shapes the arguments above can produce; ranges
\* of the fields are not modelled, every value above is in range)
IsoDate(d) ==
    \/ Len(d) = 10 /\ \A i \in 1..10 : IF i \in {5, 8} THEN d[i] = "-" ELSE d[i] \in Digits
    \/ Len(d) = 8 /\ \A i \in 1..8 : d[i] \in Digits
IsoTime(t) ==
    Len(t) = 8 /\ \A i \in 1..8 : IF i \in {3, 6} THEN t[i] = ":" ELSE t[i] \in Digits
fromisoformat_ok(str) ==
    \E i \in 1..Len(str) :
        /\ str[i] = "T"
        /\ IsoDate(SubSeq(str, 1, i - 1))
        /\ IsoTime(SubSeq(str, i + 1, Len(str)))

NoBookingCall == [op |-> "none", date |-> <<>>, time |-> <<>>, success |-> FALSE,
                  created |-> FALSE, pre_date |-> NoString, pre_time |-> NoString,
                  pre_confirmed |-> FALSE, error |-> "none"]

BkInit ==
    /\ proposed_date = NoString
    /\ proposed_time = NoString
    /\ confirmed = FALSE
    /\ appointments = 0
    /\ bkLast = NoBookingCall

\* ToolRegistry._handle_propose_appointment(args) with BookingState.propose:
\* the proposal is stored when date and time are given, whatever their form
ProposeAppointment(date, time) ==
    /\ IF Falsy(date) \/ Falsy(time)
       THEN /\ UNCHANGED <<proposed_date, proposed_time, confirmed>>
            /\ bkLast' = [NoBookingCall EXCEPT !.op = "propose", !.date = date,
                              !.time = time, !.pre_date = proposed_date,
                              !.pre_time = proposed_time, !.error = "required"]
       ELSE /\ proposed_date' = date
            /\ proposed_time' = time
            /\ confirmed' = FALSE
            /\ bkLast' = [NoBookingCall EXCEPT !.op = "propose", !.date = date,
                              !.time = time, !.pre_date = proposed_date,
                              !.pre_time = proposed_time, !.success = TRUE]
    /\ UNCHANGED appointments

\* _handle_confirm_appointment: the check that makes it return without
\* writing, "none" when it goes on to calendar_adapter.create_appointment.
\* permitted: the shop has booking enabled and a calendar adapter.
confirm_refusal(permitted, date, time) ==
    IF ~permitted THEN "not_enabled"
    ELSE IF Falsy(date) \/ Falsy(time) THEN "required"
    ELSE IF ~verify_confirmation(proposed_date, proposed_time, date, time)
         THEN "mismatch"
    ELSE IF ~fromisoformat_ok(datetime_str(date, time)) THEN "invalid_format"
    ELSE "none"

\* ToolRegistry._handle_confirm_appointment(args). write is what
\* calendar_adapter.create_appointment does: "ok" (appointment created,
\* {"success": True}), "failed" ({"success": False}) or "raised" (caught by
\* the handler, which returns a failure result). Only a created appointment
\* calls mark_confirmed, which sets the flag and nothing else.
ConfirmAppointment(permitted, date, time, write) ==
    LET refusal == confirm_refusal(permitted, date, time)
        created == refusal = "none" /\ write = "ok"
    IN  /\ created => appointments < MaxAppointments
        /\ appointments' = IF created THEN appointments + 1 ELSE appointments
        /\ confirmed' = (confirmed \/ created)
        /\ bkLast' = [NoBookingCall EXCEPT !.op = "confirm", !.date = date,
                          !.time = time, !.pre_date = proposed_date,
                          !.pre_time = proposed_time, !.success = created,
                          !.pre_confirmed = confirmed,
                          !.created = created,
                          !.error = IF refusal # "none" THEN refusal
                                    ELSE IF write = "ok" THEN "none" ELSE write]
        /\ UNCHANGED <<proposed_date, proposed_time>>

\* RealtimeSession.stop(): booking_state.clear()
BookingClear ==
    /\ proposed_date' = NoString
    /\ proposed_time' = NoString
    /\ confirmed' = FALSE
    /\ bkLast' = [NoBookingCall EXCEPT !.op = "clear", !.pre_date = proposed_date,
                      !.pre_time = proposed_time]
    /\ UNCHANGED appointments

BkPropose == \E date \in DateArgs, time \in TimeArgs : ProposeAppointment(date, time)
BkConfirm ==
    \E permitted \in BOOLEAN, date \in DateArgs, time \in TimeArgs,
       write \in {"ok", "failed", "raised"} :
          ConfirmAppointment(permitted, date, time, write)

BkNext == BkPropose \/ BkConfirm \/ BookingClear

\* The calendar day and the hour and minute a date or time string denotes
DayOf(date) == Normalized(date)
HourMinuteOf(time) == Slice(Normalized(time), 0, 4)

\* C32: confirm_appointment creates a calendar appointment only when the
\* session holds a proposal whose date and time match the request (the same
\* day and the same hour and minute, whatever the notation); with no proposal
\* (none made yet, or cleared), or with another date or time, no appointment
\* is created and a failure result is returned.
C32_ConfirmOnlyMatchingProposal ==
    bkLast.op = "confirm" =>
        /\ bkLast.created =>
              /\ bkLast.pre_date # NoString /\ bkLast.pre_time # NoString
              /\ DayOf(bkLast.pre_date) = DayOf(bkLast.date)
              /\ HourMinuteOf(bkLast.pre_time) = HourMinuteOf(bkLast.time)
        /\ ~bkLast.created => ~bkLast.success
        /\ bkLast.success = bkLast.created

\* a confirm written as "20250116", "15:00:00" created the appointment that
\* was proposed as "2025-01-16", "15:00"
C32_Witness ==
    /\ bkLast.op = "confirm" /\ bkLast.created
    /\ bkLast.pre_date = Date_2025_01_16 /\ bkLast.pre_time = Time_15_00
    /\ bkLast.date = Date_20250116 /\ bkLast.time = Time_15_00_00

\* C33: a booking proposal is consumed by its confirmation: after a
\* successful confirm_appointment the proposal is cleared, so that a second
\* confirm_appointment with the same date and time, without a new
\* propose_appointment, creates no further appointment; the proposal is also
\* cleared when the session stops.
C33_ProposalConsumedByConfirm ==
    /\ (bkLast.op = "confirm" /\ bkLast.created) =>
          /\ ~has_proposal
          /\ ~bkLast.pre_confirmed
    /\ bkLast.op = "clear" => ~has_proposal

Init == LimInit /\ SmInit /\ QInit /\ TwInit /\ BkInit

SpecLimiter == Init /\ [][LimNext /\ UNCHANGED <<smVars, qVars, twVars, bkVars>>]_vars

SpecSessions == Init /\ [][SmNext /\ UNCHANGED <<limVars, qVars, twVars, bkVars>>]_vars

SpecQueue == Init /\ [][QNext /\ UNCHANGED <<limVars, smVars, twVars, bkVars>>]_vars

\* The queue with its background task running: _cleanup_loop sleeps for the
\* interval and calls remove_expired, for ever.
SpecQueueSweep ==
    /\ SpecQueue
    /\ WF_vars(RemoveExpired /\ UNCHANGED <<limVars, smVars, twVars, bkVars>>)
    /\ WF_vars(Tick /\ UNCHANGED <<limVars, smVars, twVars, bkVars>>)

SpecBooking == Init /\ [][BkNext /\ UNCHANGED <<limVars, smVars, qVars, twVars>>]_vars

SpecSessionCalls ==
    Init /\ [][SmCallsNext /\ UNCHANGED <<limVars, qVars, twVars, bkVars>>]_vars

SpecQueueFill == Init /\ [][QFillNext /\ UNCHANGED <<limVars, smVars, twVars, bkVars>>]_vars

SpecRegistry ==
    Init /\ [][RegNext /\ UNCHANGED <<limVars, smVars, qVars, sessionVars, bkVars>>]_vars

SpecAudio == Init /\ [][AudioNext /\ UNCHANGED <<limVars, smVars, qVars, bkVars>>]_vars

SpecTwilio == Init /\ [][TwNext /\ UNCHANGED <<limVars, smVars, qVars, bkVars>>]_vars

====
